---- MODULE Spec2Model ----
(***************************************************************************)
(* Model of wgengine/router/router_openbsd.go: the openbsdRouter, which    *)
(* reconciles one tunnel address and a set of subnet routes through        *)
(* ifconfig(8)/route(8) calls, and takes over /etc/resolv.conf.            *)
(*                                                                         *)
(* The filesystem is a map from the three paths the router owns or edits   *)
(* to nodes (absent, regular file, symlink).  Every handler is one action; *)
(* its body is an operator over (stored state, filesystem, inputs, the     *)
(* calls the environment makes fail).  The host's routing table, the set   *)
(* of prefixes that the route(8) calls leave installed, is observed in     *)
(* SpecRoutes.                                                             *)
(***************************************************************************)
EXTENDS Integers, Sequences, FiniteSets, TLC

VARIABLES
  local,     \* r.local: the stored tunnel address (NoCIDR is wgcfg.CIDR{})
  routes,    \* r.routes: the stored route set
  fs,        \* the filesystem: path -> node
  op,        \* history: the last operation run
  arg,       \* history: the Settings (or servers/domains) it was given
  ret,       \* history: the error it returned
  cmds,      \* history: the gateway calls it made, in order, with outcome
  dns,       \* history: whether and how it invoked replaceResolvConf
  faults,    \* history: the filesystem calls the environment made fail
  gwfaults,  \* history: the indices of the gateway calls that failed
  pre,       \* history: local, routes and fs before the last operation
  chain,     \* history: how the last operation relates to the one before
  last,      \* history: what is remembered of the operation once returned
  external,  \* history: the resolver path was modified from outside
  taken,     \* history: the resolver path before the most recent takeover
  orig,      \* history: the resolver path before the router first ran
  watch,     \* whether the host's routing table is observed
  os,        \* the prefixes in the host's routing table (when observed)
  via,       \* history: the interface address each stored route was
             \* added with (when observed)
  misread    \* history: an os.Readlink of line 213 was made and failed
             \* for a reason of the environment's

vars == <<local, routes, fs, op, arg, ret, cmds, dns, faults, gwfaults, pre,
          chain, last, external, taken, orig, watch, os, via, misread>>

-----------------------------------------------------------------------------
(* Bounds of the model. *)

\* Longest rs.Routes list given to Set.
MaxRoutes == 2
\* Most filesystem calls the environment makes fail within one operation.
MaxFsFaults == 2
\* Most gateway calls the environment makes fail within one Set.
MaxGwFaults == 2

-----------------------------------------------------------------------------
(* Paths and filesystem nodes. *)

tsConf == "/etc/resolv.tailscale.conf"
backupConf == "/etc/resolv.pre-tailscale-backup.conf"
resolvConf == "/etc/resolv.conf"

Paths == {tsConf, backupConf, resolvConf}

\* Paths outside the router's three that a symlink may name.  The first
\* exists (as a regular file); the second does not.
ExistingTarget == "/var/run/resolv.conf"
MissingTarget == "/var/run/absent.conf"
ExternalFiles == {ExistingTarget}

Absent == [kind |-> "absent", content |-> <<>>, target |-> ""]
File(c) == [kind |-> "file", content |-> c, target |-> ""]
Link(t) == [kind |-> "link", content |-> <<>>, target |-> t]

\* Contents a resolv.conf may hold before the router touches it.
OrigX == << <<"nameserver", "192.0.2.53">> >>
OrigY == << <<"nameserver", "198.51.100.53">> >>

Nil == "nil"

\* The filesystem calls that the environment may make fail for a reason of
\* its own (EACCES, EROFS, ENOSPC, EIO), by call site.
ReplaceOps == {"TempFile", "WriteTemp", "RenameTs", "ReadlinkResolv",
               "RemoveBackup", "ReadFile", "WriteBackup", "SymlinkBackup",
               "RemoveResolv", "SymlinkResolv"}
RestoreOps == {"Stat", "ReadlinkRestore", "RenameBackup", "RemoveTs"}
FsOps == ReplaceOps \cup RestoreOps

FaultSets(ops) == {F \in SUBSET ops : Cardinality(F) <= MaxFsFaults}

-----------------------------------------------------------------------------
(* The filesystem calls, as the Go standard library performs them. Each    *)
(* takes the set F of failing call sites and the site's name.              *)

\* os.Remove: unlinks the node itself (never follows a symlink).
Remove(f, path, F, site) ==
  IF site \in F THEN [fs |-> f, err |-> "EIO"]
  ELSE IF f[path].kind = "absent" THEN [fs |-> f, err |-> "ENOENT"]
  ELSE [fs |-> [f EXCEPT ![path] = Absent], err |-> Nil]

\* os.Symlink: fails when the new path exists.
Symlink(f, target, path, F, site) ==
  IF site \in F THEN [fs |-> f, err |-> "EIO"]
  ELSE IF f[path].kind # "absent" THEN [fs |-> f, err |-> "EEXIST"]
  ELSE [fs |-> [f EXCEPT ![path] = Link(target)], err |-> Nil]

\* os.Readlink: the target of a symlink; an error on anything else, and on
\* a symlink that cannot be read.
Readlink(f, path, F, site) ==
  CASE site \in F -> [target |-> "", err |-> "EIO"]
    [] f[path].kind = "link" -> [target |-> f[path].target, err |-> Nil]
    [] f[path].kind = "absent" -> [target |-> "", err |-> "ENOENT"]
    [] OTHER -> [target |-> "", err |-> "EINVAL"]

\* Where following symlinks from p ends: Nil (at a file), "ENOENT", "ELOOP".
RECURSIVE Resolve(_, _, _)
Resolve(f, p, n) ==
  IF p \in DOMAIN f
  THEN CASE f[p].kind = "absent" -> "ENOENT"
         [] f[p].kind = "file" -> Nil
         [] OTHER -> IF n = 0 THEN "ELOOP" ELSE Resolve(f, f[p].target, n - 1)
  ELSE IF p \in ExternalFiles THEN Nil ELSE "ENOENT"

\* os.Stat: follows symlinks.
Stat(f, path, F, site) ==
  IF site \in F THEN "EIO" ELSE Resolve(f, path, Cardinality(Paths))

\* os.IsNotExist
IsNotExist(err) == err = "ENOENT"

\* What reading p yields, symlinks followed.  A file outside the router's
\* three paths holds OrigY.
RECURSIVE ReadAt(_, _, _)
ReadAt(f, p, n) ==
  IF p \in DOMAIN f
  THEN CASE f[p].kind = "absent" -> [content |-> <<>>, err |-> "ENOENT"]
         [] f[p].kind = "file" -> [content |-> f[p].content, err |-> Nil]
         [] OTHER -> IF n = 0 THEN [content |-> <<>>, err |-> "ELOOP"]
                     ELSE ReadAt(f, f[p].target, n - 1)
  ELSE IF p \in ExternalFiles THEN [content |-> OrigY, err |-> Nil]
  ELSE [content |-> <<>>, err |-> "ENOENT"]

\* ioutil.ReadFile
ReadFile(f, path, F, site) ==
  IF site \in F THEN [content |-> <<>>, err |-> "EIO"]
  ELSE ReadAt(f, path, Cardinality(Paths))

\* atomicfile.WriteFile: a temporary file renamed over the path; a failure
\* leaves the path as it was.
WriteFile(f, path, content, F, site) ==
  IF site \in F THEN [fs |-> f, err |-> "EIO"]
  ELSE [fs |-> [f EXCEPT ![path] = File(content)], err |-> Nil]

\* os.Rename: moves the node itself over the new path.
Rename(f, from, to, F, site) ==
  IF site \in F THEN [fs |-> f, err |-> "EIO"]
  ELSE IF f[from].kind = "absent" THEN [fs |-> f, err |-> "ENOENT"]
  ELSE [fs |-> [f EXCEPT ![to] = f[from], ![from] = Absent], err |-> Nil]

-----------------------------------------------------------------------------
(* restoreResolvConf and replaceResolvConf. *)

NotSymlinkErr == "resolv.conf is not a symlink to /etc/resolv.tailscale.conf"

\* Lines 260-265: the backup is renamed over resolv.conf, then tsConf is
\* removed, best effort.
RestoreRename(f, F) ==
  LET mv == Rename(f, backupConf, resolvConf, F, "RenameBackup") IN
  IF mv.err # Nil THEN mv
  ELSE [fs |-> Remove(mv.fs, tsConf, F, "RemoveTs").fs, err |-> Nil]

restoreResolvConf(f, F) ==
  LET st == Stat(f, backupConf, F, "Stat")
      ln == Readlink(f, resolvConf, F, "ReadlinkRestore")
  IN  IF st # Nil
      THEN [fs |-> f, err |-> IF IsNotExist(st) THEN Nil ELSE st]
      ELSE IF ln.err # Nil THEN [fs |-> f, err |-> ln.err]
      ELSE IF ln.target # tsConf THEN [fs |-> f, err |-> NotSymlinkErr]
      ELSE RestoreRename(f, F)

\* Lines 190-198: the managed file's content, a sequence of lines, each a
\* sequence of words.
Render(servers, domains) ==
  << <<"# resolv.conf(5) file generated by tailscale">>,
     <<"# DO NOT EDIT THIS FILE BY HAND -- CHANGES WILL BE OVERWRITTEN">>,
     <<>> >>
  \o [i \in 1..Len(servers) |-> <<"nameserver", servers[i]>>]
  \o (IF Len(domains) > 0 THEN << <<"search">> \o domains >> ELSE <<>>)

\* Lines 241-243: what replaceResolvConf returns given os.Symlink's error.
LinkResult(err) == Nil

\* InstallLink without the os.Remove of line 240.
InstallLinkUnremoved(f, F) ==
  [fs |-> Symlink(f, tsConf, resolvConf, F, "SymlinkResolv").fs,
   err |-> Nil]

\* Lines 240-245: resolv.conf is removed and linked to tsConf.
InstallLink(f, F) ==
  LET rm == Remove(f, resolvConf, F, "RemoveResolv")
      ln == Symlink(rm.fs, tsConf, resolvConf, F, "SymlinkResolv")
  IN  [fs |-> ln.fs, err |-> LinkResult(ln.err)]

\* NeedsLinkBackup without the comparison of line 229.
NeedsLinkBackupAlways(linkPath) == TRUE

\* Line 229: whether an existing symlink is backed up.
NeedsLinkBackup(linkPath) == linkPath # tsConf

\* Lines 213-238: the backup of what resolv.conf holds.  "done" says that
\* the function returns here.
BackupExisting(f, F) ==
  LET ln == Readlink(f, resolvConf, F, "ReadlinkResolv") IN
  IF ln.err # Nil
  THEN LET rm == Remove(f, backupConf, F, "RemoveBackup")
           rd == ReadFile(rm.fs, resolvConf, F, "ReadFile")
           wr == WriteFile(rm.fs, backupConf, rd.content, F, "WriteBackup")
       IN  IF IsNotExist(rd.err)
           THEN [done |-> TRUE, fs |-> rm.fs, err |-> Nil]
           ELSE IF rd.err # Nil
           THEN [done |-> TRUE, fs |-> rm.fs, err |-> rd.err]
           ELSE [done |-> wr.err # Nil, fs |-> wr.fs, err |-> wr.err]
  ELSE IF NeedsLinkBackup(ln.target)
  THEN LET rm == Remove(f, backupConf, F, "RemoveBackup")
           sl == Symlink(rm.fs, ln.target, backupConf, F, "SymlinkBackup")
       IN  [done |-> sl.err # Nil, fs |-> sl.fs, err |-> sl.err]
  ELSE [done |-> TRUE, fs |-> f, err |-> Nil]

\* WriteTsConf leaving tsConf as it finds it.
WriteTsConfUnwritten(f, content, F) == [fs |-> f, err |-> Nil]

\* Lines 199-211: tsConf is written through a temporary file.
WriteTsConf(f, content, F) ==
  IF "TempFile" \in F \/ "WriteTemp" \in F \/ "RenameTs" \in F
  THEN [fs |-> f, err |-> "EIO"]
  ELSE [fs |-> [f EXCEPT ![tsConf] = File(content)], err |-> Nil]

\* replaceResolvConf writing tsConf before it looks at the server list.
replaceResolvConfWritingFirst(f, servers, domains, F) ==
  LET w == WriteTsConf(f, Render(servers, domains), F)
      b == BackupExisting(w.fs, F)
  IN  IF w.err # Nil THEN [took |-> FALSE, misread |-> FALSE] @@ w
      ELSE IF Len(servers) = 0
      THEN [took |-> FALSE, misread |-> FALSE] @@ restoreResolvConf(w.fs, F)
      ELSE IF b.done
      THEN [took |-> FALSE, misread |-> "ReadlinkResolv" \in F,
            fs |-> b.fs, err |-> b.err]
      ELSE [took |-> TRUE, misread |-> "ReadlinkResolv" \in F]
           @@ InstallLink(b.fs, F)

\* Lines 184-246.
\* The result carries, beside the filesystem and the error, whether the
\* call got as far as line 240 (history: it replaced resolv.conf) and
\* whether it made the os.Readlink of line 213 and that call failed for a
\* reason of the environment's.
replaceResolvConf(f, servers, domains, F) ==
  IF Len(servers) = 0
  THEN [took |-> FALSE, misread |-> FALSE] @@ restoreResolvConf(f, F)
  ELSE LET w == WriteTsConf(f, Render(servers, domains), F)
           b == BackupExisting(w.fs, F)
       IN  IF w.err # Nil THEN [took |-> FALSE, misread |-> FALSE] @@ w
           ELSE IF b.done
           THEN [took |-> FALSE, misread |-> "ReadlinkResolv" \in F,
                 fs |-> b.fs, err |-> b.err]
           ELSE [took |-> TRUE, misread |-> "ReadlinkResolv" \in F]
                @@ InstallLink(b.fs, F)

-----------------------------------------------------------------------------
(* Addresses, routes and gateway commands. *)

IPBits == 32

IPv4(a, b, c, d) == ((a * 256 + b) * 256 + c) * 256 + d

CIDR(ip, mask) == [ip |-> ip, mask |-> mask]

\* wgcfg.CIDR{}: the stored address before the first Set.
NoCIDR == CIDR(0, 0)

\* Lines 122-124 and 139-141: route.IPNet(), net.IP.Mask(net.Mask) and the
\* "%v/%d" rendering: the network address with the route's prefix length.
NetOf(route) ==
  IF route.mask = 0 THEN CIDR(0, 0)
  ELSE LET host == 2 ^ (IPBits - route.mask)
       IN  CIDR((route.ip \div host) * host, route.mask)

Addr1 == CIDR(IPv4(100, 64, 0, 1), 32)
Addr2 == CIDR(IPv4(100, 64, 0, 2), 32)
RouteA == CIDR(IPv4(10, 0, 0, 0), 24)
RouteB == CIDR(IPv4(10, 0, 0, 7), 24)
RouteC == CIDR(IPv4(10, 1, 0, 0), 16)

Range(s) == {s[i] : i \in DOMAIN s}
SeqsUpTo(S, n) == UNION {[1..k -> S] : k \in 0..n}

\* The orders in which a Go map range may visit the set S.
Orders(S) == {q \in [1..Cardinality(S) -> S] : Range(q) = S}

\* One gateway call: the argv given to exec.Command, and (history) the
\* stored or desired route the call is made for.
Call(prog, verb, dest, iface, for) ==
  [prog |-> prog, verb |-> verb, dest |-> dest, iface |-> iface, for |-> for]

\* Lines 74-75, 84-86, 95-96, 105-107.
AddrDel(old) == Call("ifconfig", "-alias", old, 0, NoCIDR)
LocalRouteDel(old) == Call("route", "del", old, old.ip, NoCIDR)
AddrAdd(new) == Call("ifconfig", "alias", new, 0, NoCIDR)
LocalRouteAdd(new) == Call("route", "add", new, new.ip, NoCIDR)

\* Lines 125-127 and 142-144.
RouteDel(route, localAddr) ==
  Call("route", "del", NetOf(route), localAddr.ip, route)
RouteAdd(route, localAddr) ==
  Call("route", "add", NetOf(route), localAddr.ip, route)

\* Lines 55 and 166.
IfUp == Call("ifconfig", "up", NoCIDR, 0, NoCIDR)
IfDown == Call("ifconfig", "down", NoCIDR, 0, NoCIDR)

-----------------------------------------------------------------------------
(* Errors returned by the handlers. *)

NilErr == [kind |-> "nil", call |-> 0, cause |-> Nil]
\* The error of the i-th gateway call of the handler.
GatewayErr(i) == [kind |-> "gateway", call |-> i, cause |-> "exit status 1"]
\* Line 66.
UnsupportedErr ==
  [kind |-> "unsupported", call |-> 0,
   cause |-> "freebsd doesn't support setting multiple local addrs yet"]
\* Line 159.
DnsErr(e) == [kind |-> "dns", call |-> 0, cause |-> e]
\* An error of replaceResolvConf or restoreResolvConf called on its own.
FsErr(e) == IF e = Nil THEN NilErr ELSE [kind |-> "fs", call |-> 0, cause |-> e]

NotCalled == [called |-> FALSE, servers |-> <<>>, domains |-> <<>>]
Called(servers, domains) ==
  [called |-> TRUE, servers |-> servers, domains |-> domains]

-----------------------------------------------------------------------------
(* Set. *)

\* AddrCalls without the comparison of line 72.
AddrCallsUncompared(old, new) ==
  (IF old # NoCIDR THEN <<AddrDel(old), LocalRouteDel(old)>> ELSE <<>>)
  \o <<AddrAdd(new), LocalRouteAdd(new)>>

\* AddrCalls making the two adds before the two removes.
AddrCallsAddFirst(old, new) ==
  IF new = old THEN <<>>
  ELSE <<AddrAdd(new), LocalRouteAdd(new)>>
       \o (IF old # NoCIDR THEN <<AddrDel(old), LocalRouteDel(old)>> ELSE <<>>)

\* Lines 72-114: the calls made for the address.
AddrCalls(old, new) ==
  IF new = old THEN <<>>
  ELSE (IF old # NoCIDR THEN <<AddrDel(old), LocalRouteDel(old)>> ELSE <<>>)
       \o <<AddrAdd(new), LocalRouteAdd(new)>>

\* Lines 116-119.
NewRoutes(rs) == Range(rs.Routes)

\* Lines 120-121: the stored routes that are deleted.
ToDelete(old, new) == {route \in old : route \notin new}

\* ToAdd without the test of line 138.
ToAddEvery(old, new) == new

\* Lines 137-138: the desired routes that are added.
ToAdd(old, new) == {route \in new : route \notin old}

\* Lines 120-153: the calls made for the routes, the two maps ranged over
\* in the orders ordDel and ordAdd.
RouteCalls(localAddr, ordDel, ordAdd) ==
  [i \in 1..Len(ordDel) |-> RouteDel(ordDel[i], localAddr)]
  \o [i \in 1..Len(ordAdd) |-> RouteAdd(ordAdd[i], localAddr)]

\* The calls of one Set, in order.
SetCalls(old, rs, ordDel, ordAdd) ==
  AddrCalls(old, rs.LocalAddrs[1])
  \o RouteCalls(rs.LocalAddrs[1], ordDel, ordAdd)

\* Execute giving up at the first call that fails.
ExecuteUntilError(calls, bad) ==
  LET stop == IF \E i \in 1..Len(calls) : i \in bad
              THEN CHOOSE i \in 1..Len(calls) :
                     i \in bad /\ \A j \in 1..(i - 1) : j \notin bad
              ELSE Len(calls)
  IN  [i \in 1..stop |-> [cmd |-> calls[i], ok |-> i \notin bad]]

\* Lines 76-151: every call of the list is run, whatever the earlier ones
\* returned; bad holds the indices of the calls that fail.
Execute(calls, bad) ==
  [i \in 1..Len(calls) |-> [cmd |-> calls[i], ok |-> i \notin bad]]

Failed(log) == {i \in 1..Len(log) : ~log[i].ok}

\* "if errq == nil { errq = err }" after each call.
FirstError(log) ==
  IF Failed(log) = {} THEN NilErr
  ELSE GatewayErr(CHOOSE i \in Failed(log) : \A j \in Failed(log) : i <= j)

\* Lines 158-162.
SetReturn(errq, dnsErr) ==
  IF dnsErr # Nil THEN DnsErr(dnsErr) ELSE errq

\* ValidAddrs refusing only the empty list.
ValidAddrsSome(rs) == Len(rs.LocalAddrs) >= 1

\* Line 65.
ValidAddrs(rs) == Len(rs.LocalAddrs) = 1

\* Set storing the desired address and routes only when nothing failed.
SetStoringOnSuccess(old, oldRoutes, f, rs, ordDel, ordAdd, bad, F) ==
  IF ~ValidAddrs(rs)
  THEN [local |-> old, routes |-> oldRoutes, fs |-> f, cmds |-> <<>>,
        ret |-> UnsupportedErr, dns |-> NotCalled, took |-> FALSE,
        misread |-> FALSE]
  ELSE LET log == Execute(SetCalls(old, rs, ordDel, ordAdd), bad)
           d == replaceResolvConf(f, rs.DNS, rs.DNSDomains, F)
           e == SetReturn(FirstError(log), d.err)
       IN  [local |-> IF e = NilErr THEN rs.LocalAddrs[1] ELSE old,
            routes |-> IF e = NilErr THEN NewRoutes(rs) ELSE oldRoutes,
            fs |-> d.fs, cmds |-> log, ret |-> e,
            dns |-> Called(rs.DNS, rs.DNSDomains), took |-> d.took,
            misread |-> d.misread]

\* Lines 63-163.
Set(old, oldRoutes, f, rs, ordDel, ordAdd, bad, F) ==
  IF ~ValidAddrs(rs)
  THEN [local |-> old, routes |-> oldRoutes, fs |-> f, cmds |-> <<>>,
        ret |-> UnsupportedErr, dns |-> NotCalled, took |-> FALSE,
        misread |-> FALSE]
  ELSE LET log == Execute(SetCalls(old, rs, ordDel, ordAdd), bad)
           d == replaceResolvConf(f, rs.DNS, rs.DNSDomains, F)
       IN  [local |-> rs.LocalAddrs[1], routes |-> NewRoutes(rs),
            fs |-> d.fs, cmds |-> log,
            ret |-> SetReturn(FirstError(log), d.err),
            dns |-> Called(rs.DNS, rs.DNSDomains), took |-> d.took,
            misread |-> d.misread]

-----------------------------------------------------------------------------
(* Close and Up. *)

\* Close returning the error of "ifconfig down" at once.
CloseStoppingOnError(f, bad, F) ==
  LET log == Execute(<<IfDown>>, bad) IN
  IF Failed(log) # {} THEN [fs |-> f, cmds |-> log, ret |-> FirstError(log)]
  ELSE [fs |-> restoreResolvConf(f, F).fs, cmds |-> log, ret |-> NilErr]

\* Lines 165-176.
Close(f, bad, F) ==
  [fs |-> restoreResolvConf(f, F).fs, cmds |-> Execute(<<IfDown>>, bad),
   ret |-> NilErr]

\* Lines 54-61.
Up(bad) ==
  LET log == Execute(<<IfUp>>, bad) IN [cmds |-> log, ret |-> FirstError(log)]

-----------------------------------------------------------------------------
(* The host's routing table, as the route(8) calls of Set leave it. *)

\* One call: a "route add" that succeeds leaves its destination prefix in
\* the table, a "route del" that succeeds leaves it out; a call that fails,
\* and an ifconfig call, leave the table as it is.
RouteEffect(table, entry) ==
  IF ~entry.ok \/ entry.cmd.prog # "route" THEN table
  ELSE IF entry.cmd.verb = "add" THEN table \cup {entry.cmd.dest}
  ELSE table \ {entry.cmd.dest}

\* The table after the first n calls of log.
RECURSIVE TableAfter(_, _, _)
TableAfter(table, log, n) ==
  IF n = 0 THEN table
  ELSE RouteEffect(TableAfter(table, log, n - 1), log[n])

\* The "-iface" address that the "route add" made for route names in log.
AddedVia(log, route) ==
  LET i == CHOOSE i \in DOMAIN log :
             log[i].cmd.verb = "add" /\ log[i].cmd.for = route
  IN  log[i].cmd.iface

\* The interface address each route of stored was added with: the one named
\* by its "route add" in log, or else the one it had in v.
ViaAfter(v, log, stored) ==
  [route \in stored |->
     IF \E i \in DOMAIN log :
          log[i].cmd.verb = "add" /\ log[i].cmd.for = route
     THEN AddedVia(log, route)
     ELSE v[route]]

NoVia == [route \in {} |-> 0]

-----------------------------------------------------------------------------
(* Inputs. *)

AddrLists == {<<>>, <<Addr1>>, <<Addr2>>, <<Addr1, Addr2>>}
RouteLists == SeqsUpTo({RouteA, RouteB, RouteC}, MaxRoutes)
NameServer1 == "100.100.100.100"
NameServer2 == "8.8.8.8"
ServerLists == {<<>>, <<NameServer1>>, <<NameServer2, NameServer1>>}
DomainLists == {<<>>, <<"example.ts.net">>}

Settings(addrs, rts, servers, domains) ==
  [LocalAddrs |-> addrs, Routes |-> rts, DNS |-> servers,
   DNSDomains |-> domains]

NoSettings == Settings(<<>>, <<>>, <<>>, <<>>)

\* The Settings the reconciler is driven with.
SetInputs ==
  {Settings(a, r, s, <<>>) :
     a \in AddrLists, r \in RouteLists, s \in {<<>>, <<NameServer1>>}}

\* What resolv.conf may be before the router first runs, and what an
\* administrator or a DHCP client may make of it later.
InitResolv ==
  {Absent, File(OrigX), Link(ExistingTarget), Link(MissingTarget)}
TamperNodes ==
  {Absent, File(OrigY), Link(ExistingTarget), Link(MissingTarget)}

\* The filesystem calls that fail under Set: none, or one of those on the
\* path its replaceResolvConf takes.
SetFaultSets(rs) ==
  {{}} \cup {{site} : site \in IF Len(rs.DNS) = 0 THEN {"RenameBackup"}
                                ELSE {"RenameTs", "SymlinkResolv"}}

\* Sets of at most n indices of the calls 1..k.
RECURSIVE Failing(_, _)
Failing(k, n) ==
  IF n = 0 THEN {{}}
  ELSE LET few == Failing(k, n - 1) IN
       few \cup {B \cup {i} : B \in few, i \in 1..k}

NoChain == [kind |-> "none", base |-> Absent, errs |-> FALSE]

\* What the next operation is told of the one before it, when that was a Set
\* that passed validation (the address list and the route set it asked for,
\* and whether a gateway call of it failed) or a replaceResolvConf with
\* servers that met no failing filesystem call (what resolv.conf was before
\* it).  Of any other operation nothing is kept.
Last(name, ok, addrs, rts, base) ==
  [op |-> name, ok |-> ok, addrs |-> addrs, routes |-> rts, base |-> base,
   errs |-> FALSE]
NoLast == Last("none", FALSE, <<>>, {}, Absent)

\* No call is in progress: the caller has taken the last result.
Idle == op = "none"

State == [local |-> local, routes |-> routes, fs |-> fs, os |-> os,
          via |-> via]

-----------------------------------------------------------------------------
(* The state machine. *)

Boot(w) ==
  /\ local = NoCIDR
  /\ routes = {}
  /\ fs \in {[p \in Paths |-> IF p = resolvConf THEN n ELSE Absent] :
               n \in InitResolv}
  /\ op = "none"
  /\ arg = NoSettings
  /\ ret = NilErr
  /\ cmds = <<>>
  /\ dns = NotCalled
  /\ faults = {}
  /\ gwfaults = {}
  /\ pre = [local |-> local, routes |-> routes, fs |-> fs, os |-> {},
            via |-> NoVia]
  /\ chain = NoChain
  /\ last = NoLast
  /\ external = FALSE
  /\ taken = Absent
  /\ orig = fs[resolvConf]
  /\ watch = w
  /\ os = {}
  /\ via = NoVia
  /\ misread = FALSE

\* The state after newUserspaceRouter, the routing table not observed.
Init == Boot(FALSE)

\* r.Set(rs), the two maps ranged over in the orders ordDel and ordAdd, the
\* gateway calls of bad and the filesystem calls of F failing.
SetStep(rs, ordDel, ordAdd, bad, F) ==
  \E r \in {Set(local, routes, fs, rs, ordDel, ordAdd, bad, F)} :
    /\ local' = r.local
    /\ routes' = r.routes
    /\ fs' = r.fs
    /\ op' = "Set"
    /\ arg' = rs
    /\ ret' = r.ret
    /\ cmds' = r.cmds
    /\ dns' = r.dns
    /\ faults' = F
    /\ gwfaults' = bad
    /\ pre' = State
    /\ chain' = IF /\ last.op = "Set"
                   /\ last.ok
                   /\ last.addrs = rs.LocalAddrs
                   /\ last.routes = NewRoutes(rs)
                THEN [kind |-> "repeat", base |-> Absent, errs |-> last.errs]
                ELSE NoChain
    /\ last' = IF ValidAddrs(rs)
               THEN [Last("Set", TRUE, rs.LocalAddrs, NewRoutes(rs), Absent)
                       EXCEPT !.errs = Failed(r.cmds) # {}]
               ELSE NoLast
    /\ taken' = IF r.took THEN fs[resolvConf] ELSE taken
    /\ os' = IF watch THEN TableAfter(os, r.cmds, Len(r.cmds)) ELSE os
    /\ via' = IF watch THEN ViaAfter(via, r.cmds, r.routes) ELSE via
    /\ misread' = (misread \/ r.misread)
    /\ UNCHANGED <<external, orig, watch>>

SetAction ==
  /\ Idle
  /\ \E rs \in SetInputs :
       \E F \in SetFaultSets(rs) :
         \E ordDel \in Orders(ToDelete(routes, NewRoutes(rs))) :
           \E ordAdd \in Orders(ToAdd(routes, NewRoutes(rs))) :
             \E bad \in Failing(IF ValidAddrs(rs)
                                THEN Len(SetCalls(local, rs, ordDel, ordAdd))
                                ELSE 0, MaxGwFaults) :
               SetStep(rs, ordDel, ordAdd, bad, F)

\* r.Close()
CloseStep(bad, F) ==
  \E r \in {Close(fs, bad, F)} :
    /\ fs' = r.fs
    /\ op' = "Close"
    /\ arg' = NoSettings
    /\ ret' = r.ret
    /\ cmds' = r.cmds
    /\ dns' = NotCalled
    /\ faults' = F
    /\ gwfaults' = bad
    /\ pre' = State
    /\ chain' = NoChain
    /\ last' = NoLast
    /\ UNCHANGED <<local, routes, external, taken, orig, watch, os, via,
                   misread>>

CloseAction ==
  /\ Idle
  /\ \E bad \in SUBSET {1}, F \in FaultSets(RestoreOps) : CloseStep(bad, F)

\* r.Up()
UpStep(bad) ==
  \E r \in {Up(bad)} :
    /\ op' = "Up"
    /\ arg' = NoSettings
    /\ ret' = r.ret
    /\ cmds' = r.cmds
    /\ dns' = NotCalled
    /\ faults' = {}
    /\ gwfaults' = bad
    /\ pre' = State
    /\ chain' = NoChain
    /\ last' = NoLast
    /\ UNCHANGED <<local, routes, fs, external, taken, orig, watch, os, via,
                   misread>>

UpAction == Idle /\ \E bad \in SUBSET {1} : UpStep(bad)

\* r.replaceResolvConf(servers, domains), called on its own.
ReplaceStep(servers, domains, F) ==
  \E r \in {replaceResolvConf(fs, servers, domains, F)} :
    /\ fs' = r.fs
    /\ op' = "ReplaceConfig"
    /\ arg' = Settings(<<>>, <<>>, servers, domains)
    /\ ret' = FsErr(r.err)
    /\ cmds' = <<>>
    /\ dns' = Called(servers, domains)
    /\ faults' = F
    /\ gwfaults' = {}
    /\ pre' = State
    /\ chain' = NoChain
    /\ last' = IF Len(servers) > 0 /\ F = {}
               THEN Last("ReplaceConfig", TRUE, <<>>, {}, fs[resolvConf])
               ELSE NoLast
    /\ taken' = IF r.took THEN fs[resolvConf] ELSE taken
    /\ misread' = (misread \/ r.misread)
    /\ UNCHANGED <<local, routes, external, orig, watch, os, via>>

ReplaceConfig ==
  /\ Idle
  /\ \E servers \in ServerLists, domains \in DomainLists :
       \E F \in FaultSets(IF Len(servers) = 0
                          THEN RestoreOps ELSE ReplaceOps) :
         ReplaceStep(servers, domains, F)

\* r.restoreResolvConf(), called on its own.
RestoreStep(F) ==
  \E r \in {restoreResolvConf(fs, F)} :
    /\ fs' = r.fs
    /\ op' = "RestoreConfig"
    /\ arg' = NoSettings
    /\ ret' = FsErr(r.err)
    /\ cmds' = <<>>
    /\ dns' = NotCalled
    /\ faults' = F
    /\ gwfaults' = {}
    /\ pre' = State
    /\ chain' = IF last.op = "ReplaceConfig" /\ last.ok
                THEN [kind |-> "undo", base |-> last.base, errs |-> FALSE]
                ELSE NoChain
    /\ last' = NoLast
    /\ UNCHANGED <<local, routes, external, taken, orig, watch, os, via,
                   misread>>

RestoreConfig == Idle /\ \E F \in FaultSets(RestoreOps) : RestoreStep(F)

\* Something other than the router rewrites /etc/resolv.conf.
Tamper ==
  \E n \in TamperNodes :
    /\ Idle
    /\ n # fs[resolvConf]
    /\ fs' = [fs EXCEPT ![resolvConf] = n]
    /\ op' = "Tamper"
    /\ arg' = NoSettings
    /\ ret' = NilErr
    /\ cmds' = <<>>
    /\ dns' = NotCalled
    /\ faults' = {}
    /\ gwfaults' = {}
    /\ pre' = State
    /\ chain' = NoChain
    /\ last' = NoLast
    /\ external' = TRUE
    /\ UNCHANGED <<local, routes, taken, orig, watch, os, via, misread>>

\* The operation returns: the caller takes its result, and the record of
\* the call is dropped.  The router and the filesystem stay as they are.
Return ==
  /\ ~Idle
  /\ op' = "none"
  /\ arg' = NoSettings
  /\ ret' = NilErr
  /\ cmds' = <<>>
  /\ dns' = NotCalled
  /\ faults' = {}
  /\ gwfaults' = {}
  /\ pre' = State
  /\ chain' = NoChain
  /\ UNCHANGED <<local, routes, fs, last, external, taken, orig, watch, os,
                 via, misread>>

\* The reconciler as its caller drives it, on a host whose resolv.conf is a
\* regular file.
InitRouter == Init /\ fs[resolvConf] = File(OrigX)

Next == SetAction \/ CloseAction \/ UpAction \/ Return

Spec == InitRouter /\ [][Next]_vars

\* The DNS takeover manager on its own, with the resolver path open to
\* outside modification.
NextDNS == ReplaceConfig \/ RestoreConfig \/ Tamper \/ Return

SpecDNS == Init /\ [][NextDNS]_vars

\* The reconciler on a host where every gateway call succeeds and whose
\* routing table is observed; no resolver is asked for.
ApplyRouteLists == SeqsUpTo({RouteA, RouteB, Addr1}, MaxRoutes)

ApplyInputs ==
  {Settings(a, r, <<>>, <<>>) : a \in AddrLists, r \in ApplyRouteLists}

ApplyAction ==
  /\ Idle
  /\ \E rs \in ApplyInputs :
       \E ordDel \in Orders(ToDelete(routes, NewRoutes(rs))) :
         \E ordAdd \in Orders(ToAdd(routes, NewRoutes(rs))) :
           SetStep(rs, ordDel, ordAdd, {}, {})

InitRoutes == Boot(TRUE) /\ fs[resolvConf] = File(OrigX)

NextRoutes == ApplyAction \/ Return

SpecRoutes == InitRoutes /\ [][NextRoutes]_vars

-----------------------------------------------------------------------------
(* The claims. *)

\* The last operation was a Set that passed validation.
AppliedSet == op = "Set" /\ ValidAddrs(arg)

\* The last operation was a replaceResolvConf with servers, called on its
\* own, that met no failing filesystem call.
CleanReplace == op = "ReplaceConfig" /\ Len(arg.DNS) > 0 /\ faults = {}

\* resolv.conf holds something of the host's own: a regular file, or a
\* symlink to anything but tsConf.
Foreign(node) ==
  node.kind = "file" \/ (node.kind = "link" /\ node.target # tsConf)

\* C1: whenever a gateway call fails during a Set, the error Set returns is
\* the error of the earliest failing call, also when replaceResolvConf fails
\* later in the same Set.
C1_FirstErrorReturned ==
  (AppliedSet /\ Failed(cmds) # {}) =>
    \E i \in Failed(cmds) :
      /\ \A j \in Failed(cmds) : i <= j
      /\ ret = GatewayErr(i)

\* C2: replaceResolvConf with servers followed at once by restoreResolvConf,
\* neither meeting a failing filesystem call, leaves resolv.conf as it was
\* before the two (absent, a regular file, or a symlink to anything but
\* tsConf) and leaves neither tsConf nor the backup behind.
C2_RoundTrip ==
  (/\ op = "RestoreConfig"
   /\ faults = {}
   /\ chain.kind = "undo"
   /\ chain.base # Link(tsConf)) =>
    /\ fs[resolvConf] = chain.base
    /\ fs[tsConf] = Absent
    /\ fs[backupConf] = Absent

\* C3: when resolv.conf is absent, replaceResolvConf with servers and no
\* failing filesystem call backs nothing up and leaves resolv.conf a symlink
\* to tsConf.
C3_AbsentIsLinked ==
  (CleanReplace /\ pre.fs[resolvConf] = Absent) =>
    /\ fs[backupConf] = Absent
    /\ fs[resolvConf] = Link(tsConf)

\* C4: replaceResolvConf never returns nil when it has removed resolv.conf
\* and could not create the symlink to tsConf in its place.
C4_LinkFailureReturned ==
  (/\ op = "ReplaceConfig"
   /\ Len(arg.DNS) > 0
   /\ Foreign(pre.fs[resolvConf])
   /\ fs[resolvConf] = Absent) =>
    ret # NilErr

\* C5: a Set that asks for the address and the route set that the Set just
\* before it (one that passed validation, whatever its gateway calls
\* returned) asked for makes no gateway call.
C5_RepeatIssuesNothing ==
  (op = "Set" /\ chain.kind = "repeat") => cmds = <<>>

C5_Witness ==
  /\ op = "Set"
  /\ chain.kind = "repeat"
  /\ chain.errs
  /\ pre.routes # {}
  /\ cmds = <<>>

\* The number of subnet-route calls of verb made for route among the calls
\* of the last operation.
RouteCallsFor(verb, route) ==
  Cardinality({i \in DOMAIN cmds :
                 /\ cmds[i].cmd.prog = "route"
                 /\ cmds[i].cmd.verb = verb
                 /\ cmds[i].cmd.for = route})

\* C6: for the stored route set S and the desired route list with set D, Set
\* makes exactly one "route del" for each route of S \ D, exactly one
\* "route add" for each route of D \ S, no route call for a route of both or
\* of neither, each naming the route's network; so the calls made are the
\* same in every order of ranging over the two maps and for a desired list
\* with duplicates.
C6_RouteDiff ==
  AppliedSet =>
    /\ \A route \in pre.routes \cup NewRoutes(arg) :
         /\ RouteCallsFor("del", route) =
              IF route \in pre.routes \ NewRoutes(arg) THEN 1 ELSE 0
         /\ RouteCallsFor("add", route) =
              IF route \in NewRoutes(arg) \ pre.routes THEN 1 ELSE 0
    /\ \A i \in DOMAIN cmds :
         cmds[i].cmd.for # NoCIDR =>
           /\ cmds[i].cmd.for \in pre.routes \cup NewRoutes(arg)
           /\ cmds[i].cmd.dest = NetOf(cmds[i].cmd.for)

C6_Witness ==
  /\ AppliedSet
  /\ pre.routes \ NewRoutes(arg) # {}
  /\ NewRoutes(arg) \ pre.routes # {}
  /\ pre.routes \cap NewRoutes(arg) # {}
  /\ RouteCallsFor("del", CHOOSE r \in pre.routes \ NewRoutes(arg) : TRUE) = 1
  /\ RouteCallsFor("add", CHOOSE r \in NewRoutes(arg) \ pre.routes : TRUE) = 1

\* The gateway calls of the last operation, without their outcomes.
Issued == [i \in DOMAIN cmds |-> cmds[i].cmd]

\* C7: whichever gateway calls fail, a Set that passed validation makes the
\* calls it makes when none fails, stores the desired address and route set,
\* and invokes replaceResolvConf with the desired servers and domains.
C7_FailSoft ==
  AppliedSet =>
    /\ \E ordDel \in Orders(ToDelete(pre.routes, NewRoutes(arg))) :
         \E ordAdd \in Orders(ToAdd(pre.routes, NewRoutes(arg))) :
           Issued = SetCalls(pre.local, arg, ordDel, ordAdd)
    /\ local = arg.LocalAddrs[1]
    /\ routes = NewRoutes(arg)
    /\ dns = Called(arg.DNS, arg.DNSDomains)

C7_Witness ==
  /\ AppliedSet
  /\ Failed(cmds) = {1, 3}
  /\ Len(cmds) >= 6
  /\ local # pre.local
  /\ routes # pre.routes
  /\ dns.called

\* C8: a Set given no local address or more than one returns the
\* unsupported-configuration error, makes no gateway call, leaves the stored
\* address, the stored routes and the filesystem as they were and does not
\* invoke replaceResolvConf.
C8_RejectedBeforeEffects ==
  (op = "Set" /\ Len(arg.LocalAddrs) # 1) =>
    /\ ret = UnsupportedErr
    /\ cmds = <<>>
    /\ local = pre.local
    /\ routes = pre.routes
    /\ fs = pre.fs
    /\ dns = NotCalled

C8_Witness ==
  /\ op = "Set"
  /\ Len(arg.LocalAddrs) = 2
  /\ pre.local = Addr2
  /\ NewRoutes(arg) # pre.routes
  /\ Len(arg.DNS) > 0
  /\ fs[resolvConf] = File(OrigX)
  /\ ret = UnsupportedErr

\* C9: when resolv.conf is a regular file or a symlink to anything but
\* tsConf, replaceResolvConf with servers and no failing filesystem call
\* leaves the backup equal to what resolv.conf was (the same content, or a
\* symlink to the same target) whatever the backup held before, and leaves
\* resolv.conf a symlink to tsConf.
C9_BackupHoldsPrior ==
  (CleanReplace /\ Foreign(pre.fs[resolvConf])) =>
    /\ fs[backupConf] = pre.fs[resolvConf]
    /\ fs[resolvConf] = Link(tsConf)

C9_Witness ==
  /\ CleanReplace
  /\ pre.fs[resolvConf] = Link(MissingTarget)
  /\ pre.fs[backupConf] = File(OrigX)
  /\ fs[backupConf] = Link(MissingTarget)

C11_TamperDetected ==
  (/\ op = "RestoreConfig"
   /\ pre.fs[backupConf] # Absent
   /\ pre.fs[resolvConf] # Link(tsConf)) =>
    /\ ret # NilErr
    /\ fs = pre.fs

\* C12: after every Set that passed validation, whichever gateway calls and
\* whichever filesystem calls of replaceResolvConf failed, the stored address
\* is the desired address and the stored route set is the set of the desired
\* routes.
C12_StoredIsDesired ==
  AppliedSet =>
    /\ local = arg.LocalAddrs[1]
    /\ routes = {arg.Routes[i] : i \in DOMAIN arg.Routes}

C12_Witness ==
  /\ AppliedSet
  /\ Failed(cmds) # {}
  /\ ret.kind = "dns"
  /\ pre.local # NoCIDR
  /\ local # pre.local
  /\ routes # pre.routes
  /\ local = arg.LocalAddrs[1]

\* The address commands a Set is to open with, given the stored address old
\* and the desired address new.
AddressCommands(old, new) ==
  IF new = old THEN <<>>
  ELSE IF old = NoCIDR
  THEN << [prog |-> "ifconfig", verb |-> "alias", dest |-> new,
           iface |-> 0, for |-> NoCIDR],
          [prog |-> "route", verb |-> "add", dest |-> new,
           iface |-> new.ip, for |-> NoCIDR] >>
  ELSE << [prog |-> "ifconfig", verb |-> "-alias", dest |-> old,
           iface |-> 0, for |-> NoCIDR],
          [prog |-> "route", verb |-> "del", dest |-> old,
           iface |-> old.ip, for |-> NoCIDR],
          [prog |-> "ifconfig", verb |-> "alias", dest |-> new,
           iface |-> 0, for |-> NoCIDR],
          [prog |-> "route", verb |-> "add", dest |-> new,
           iface |-> new.ip, for |-> NoCIDR] >>

\* C13: a Set whose desired address differs from a non-empty stored address
\* makes, in this order, the removal of the old alias, the removal of the old
\* address route, the addition of the new alias and the addition of the new
\* address route, the additions also when the removals fail, and all four
\* before any subnet-route call; with an empty stored address it makes only
\* the two additions; with the desired address equal to the stored one it
\* makes no address call.
C13_AddressOrdering ==
  AppliedSet =>
    LET expect == AddressCommands(pre.local, arg.LocalAddrs[1]) IN
    /\ Len(cmds) >= Len(expect)
    /\ \A i \in DOMAIN expect : cmds[i].cmd = expect[i]
    /\ \A i \in DOMAIN cmds :
         i > Len(expect) => /\ cmds[i].cmd.prog = "route"
                            /\ cmds[i].cmd.for # NoCIDR

C13_Witness ==
  /\ AppliedSet
  /\ pre.local = Addr1
  /\ arg.LocalAddrs[1] = Addr2
  /\ Failed(cmds) = {1, 2}
  /\ Len(cmds) >= 6
  /\ cmds[3].cmd.verb = "alias"
  /\ cmds[5].cmd.verb = "del"

\* The filesystem calls by which tsConf is written.
WriteSites == {"TempFile", "WriteTemp", "RenameTs"}

C15_CloseNeverFails ==
  op = "Close" =>
    /\ ret = NilErr
    /\ Len(cmds) = 1
    /\ cmds[1].cmd = [prog |-> "ifconfig", verb |-> "down", dest |-> NoCIDR,
                      iface |-> 0, for |-> NoCIDR]
    /\ fs = restoreResolvConf(pre.fs, faults).fs
    /\ (/\ faults = {}
        /\ pre.fs[resolvConf] = Link(tsConf)
        /\ pre.fs[backupConf].kind = "file") =>
         /\ fs[resolvConf] = pre.fs[backupConf]
         /\ fs[backupConf] = Absent
         /\ fs[tsConf] = Absent

C15_Witness ==
  /\ op = "Close"
  /\ ~cmds[1].ok
  /\ faults = {}
  /\ pre.fs[resolvConf] = Link(tsConf)
  /\ fs[resolvConf] = File(OrigX)
  /\ ret = NilErr

\* C16: from every state of the filesystem, replaceResolvConf with no
\* servers leaves resolv.conf, tsConf and the backup as restoreResolvConf
\* leaves them from that state under the same failing filesystem calls,
\* returns what it returns, and writes no tsConf.
C16_DisableIsRestore ==
  (op = "ReplaceConfig" /\ Len(arg.DNS) = 0) =>
    /\ fs = restoreResolvConf(pre.fs, faults).fs
    /\ ret = FsErr(restoreResolvConf(pre.fs, faults).err)
    /\ fs[tsConf] \in {pre.fs[tsConf], Absent}

C16_Witness ==
  /\ op = "ReplaceConfig"
  /\ Len(arg.DNS) = 0
  /\ Len(arg.DNSDomains) > 0
  /\ faults = {}
  /\ pre.fs[resolvConf] = Link(tsConf)
  /\ pre.fs[backupConf] = Link(ExistingTarget)
  /\ fs[resolvConf] = Link(ExistingTarget)
  /\ fs[tsConf] = Absent
  /\ fs[backupConf] = Absent
  /\ ret = NilErr

\* The node holds what resolv.conf was before the router first ran: it is
\* that file or symlink, or a regular file with the content that symlink led
\* to.
HoldsOriginal(node) ==
  \/ node = orig
  \/ /\ orig.kind = "link"
     /\ node.kind = "file"
     /\ ReadAt(fs, orig.target, Cardinality(Paths)) =
          [content |-> node.content, err |-> Nil]

\* C17: from a host whose resolv.conf is a regular file or a symlink to
\* anything but tsConf, with no backup, and as long as nothing but the router
\* modifies the paths, after any sequence of replaceResolvConf and
\* restoreResolvConf calls in which filesystem calls may fail, what
\* resolv.conf was before the first call is at resolv.conf or in the backup.
C17_OriginalKept ==
  (~external /\ Foreign(orig)) =>
    \/ HoldsOriginal(fs[resolvConf])
    \/ HoldsOriginal(fs[backupConf])

\* C18: from a host whose resolv.conf is not a symlink to tsConf, and as long
\* as nothing but the router modifies the paths, after any sequence of
\* replaceResolvConf and restoreResolvConf calls in which filesystem calls
\* may fail, whenever resolv.conf is a symlink to tsConf the backup exists
\* and tsConf exists.
C18_TakeoverUndoable ==
  (~external /\ fs[resolvConf] = Link(tsConf)) =>
    /\ fs[backupConf] # Absent
    /\ fs[tsConf] # Absent

\* C19: over any sequence of Sets, every "route del" made for a stored
\* subnet route names the "-iface" address that the "route add" made for that
\* route named, also when the stored address has changed since, or changes in
\* the same Set.
C19_DeleteNamesAddIface ==
  (watch /\ AppliedSet) =>
    \A i \in DOMAIN cmds :
      (cmds[i].cmd.verb = "del" /\ cmds[i].cmd.for # NoCIDR) =>
        cmds[i].cmd.iface = pre.via[cmds[i].cmd.for]

\* C20: from an empty stored state and a routing table with no route of the
\* interface, over any sequence of Sets whose gateway calls all succeed, the
\* prefixes in the routing table after each Set are the networks of the
\* desired routes and the address route of the desired address, also when
\* two routes differ in host bits only or a route is the address prefix.
C20_Converges ==
  (watch /\ AppliedSet /\ Failed(cmds) = {}) =>
    os = {NetOf(arg.Routes[i]) : i \in DOMAIN arg.Routes}
           \cup {arg.LocalAddrs[1]}

====
